---- MODULE Spec2Model ----
(***************************************************************************)
(* A model of the Gouji rule engine of src/gouji: the deck and deal        *)
(* systems, the pattern engine (CardPatternChecker), the play system       *)
(* (AI and human turns) and the main loop of GoujiGame.run.                *)
(*                                                                         *)
(* Python values are represented as follows.                               *)
(*   - a Card object is a record [suit, rank, deck_id]; the deck holds     *)
(*     each (suit, rank, deck_id) once, so record equality is object       *)
(*     identity (Card defines no __eq__);                                  *)
(*   - a list is a sequence;                                               *)
(*   - Optional[x] is a sequence of length at most one: None is <<>> and   *)
(*     a value x is <<x>>;                                                 *)
(*   - a str is a sequence of characters, each character a one-element     *)
(*     TLA+ string; the three CJK characters of the joker labels are      *)
(*     written "Da", "Xiao" and "Wang".                                    *)
(***************************************************************************)
EXTENDS Integers, Sequences, FiniteSets, TLC

-----------------------------------------------------------------------------
(* Bounds of the model.                                                    *)

\* Number of merged decks built by create_deck (the code builds 4).
DeckCount == 2

\* Number of different outcomes of random.shuffle that are explored.
ShuffleCount == 4

\* The largest number of players a host's world holds.
MaxPlayers == 7

\* The longest card list a direct call of the pattern checker is given.
MaxCallCards == 2

\* The positions a direct call of get_score_by_rank is given run from
\* -MaxPosition to MaxPosition.
MaxPosition == 60

\* The suits and the non-joker ranks put into the model's deck, in the order
\* in which create_deck enumerates them (the code uses all 4 suits and all
\* 13 non-joker ranks).  Both jokers are always included.
DeckSuits == <<"HEART", "DIAMOND">>
DeckRanks == <<"ACE", "THREE">>

-----------------------------------------------------------------------------
(* constants.py                                                            *)

\* class Rank, in declaration order.
RankMembers ==
  <<"ACE", "TWO", "THREE", "FOUR", "FIVE", "SIX", "SEVEN", "EIGHT", "NINE",
    "TEN", "JACK", "QUEEN", "KING", "RED_JOKER", "BLACK_JOKER">>

Rank == {RankMembers[i] : i \in 1..Len(RankMembers)}

\* Rank.value: the label of the member, as a str.
RankLabel(rank) ==
  CASE rank = "ACE"         -> <<"A">>
    [] rank = "TWO"         -> <<"2">>
    [] rank = "THREE"       -> <<"3">>
    [] rank = "FOUR"        -> <<"4">>
    [] rank = "FIVE"        -> <<"5">>
    [] rank = "SIX"         -> <<"6">>
    [] rank = "SEVEN"       -> <<"7">>
    [] rank = "EIGHT"       -> <<"8">>
    [] rank = "NINE"        -> <<"9">>
    [] rank = "TEN"         -> <<"1", "0">>
    [] rank = "JACK"        -> <<"J">>
    [] rank = "QUEEN"       -> <<"Q">>
    [] rank = "KING"        -> <<"K">>
    [] rank = "RED_JOKER"   -> <<"Da", "Wang">>
    [] rank = "BLACK_JOKER" -> <<"Xiao", "Wang">>

\* Mutant of get_value: the value is the place of the member in the
\* declaration of the enum.
get_value_DeclarationOrder(rank) ==
  CHOOSE i \in 1..Len(RankMembers) : RankMembers[i] = rank

\* Rank.get_value: the ladder 3..10, J, Q, K, A, 2, small joker, big joker.
get_value(rank) ==
  CASE rank = "THREE"       -> 3
    [] rank = "FOUR"        -> 4
    [] rank = "FIVE"        -> 5
    [] rank = "SIX"         -> 6
    [] rank = "SEVEN"       -> 7
    [] rank = "EIGHT"       -> 8
    [] rank = "NINE"        -> 9
    [] rank = "TEN"         -> 10
    [] rank = "JACK"        -> 11
    [] rank = "QUEEN"       -> 12
    [] rank = "KING"        -> 13
    [] rank = "ACE"         -> 14
    [] rank = "TWO"         -> 15
    [] rank = "BLACK_JOKER" -> 16
    [] rank = "RED_JOKER"   -> 17

\* Mutant of get_score_by_rank: a position outside the table is scored as
\* the last place.
get_score_by_rank_DefaultLastPlace(rank) ==
  CASE rank = 0 -> 2
    [] rank = 1 -> 1
    [] rank = 2 -> 0
    [] rank = 3 -> 0
    [] rank = 4 -> -1
    [] rank = 5 -> -2
    [] OTHER    -> -2

\* ScoringRules.get_score_by_rank: RANKING_SCORES.get(rank, 0).
get_score_by_rank(rank) ==
  CASE rank = 0 -> 2
    [] rank = 1 -> 1
    [] rank = 2 -> 0
    [] rank = 3 -> 0
    [] rank = 4 -> -1
    [] rank = 5 -> -2
    [] OTHER    -> 0

-----------------------------------------------------------------------------
(* Lists                                                                   *)

None == <<>>
Some(x) == <<x>>

Range(s) == {s[i] : i \in 1..Len(s)}

\* The elements of s that are in the set keep, in the order of s.
FilterSeq(s, keep) == SelectSeq(s, LAMBDA x : x \in keep)

\* Mutants of RemoveAll: nothing leaves the list; only the first card does.
RemoveAll_Nothing(list, cards) == list

RemoveAll_FirstOnly(list, cards) ==
  FilterSeq(list, Range(list) \ {cards[1]})

\* Mutant of RemoveAll: the cards are added to the list (extend) instead of
\* being taken out of it.
RemoveAll_PutsBack(list, cards) == list \o cards

\* list.remove(x) for every x of `cards`: the cards are distinct objects, so
\* what is left is the list without them, in its order.
RemoveAll(list, cards) ==
  FilterSeq(list, Range(list) \ Range(cards))

\* list[:n]
Prefix(s, n) == SubSeq(s, 1, IF n < Len(s) THEN n ELSE Len(s))

-----------------------------------------------------------------------------
(* components/card_components.py                                           *)

Card(suit, rank, deck_id) == [suit |-> suit, rank |-> rank, deck_id |-> deck_id]

\* Card.get_rank_display: the class defines it twice and the second
\* definition is the one in force: it returns rank.value.
get_rank_display(card) == RankLabel(card.rank)

-----------------------------------------------------------------------------
(* core/card_patterns.py                                                   *)

\* all(rank == ranks[0] for rank in ranks) over the ranks of a card list.
AllSameRank(cards) ==
  \A i \in 1..Len(cards) : cards[i].rank = cards[1].rank

\* Mutants of can_beat: the ranks are not compared; only a shorter play is
\* turned down for its length.
can_beat_IgnoresRank(new_cards, previous_cards) ==
  IF previous_cards = None \/ Len(previous_cards[1]) = 0 THEN TRUE
  ELSE IF Len(new_cards) # Len(previous_cards[1]) THEN FALSE
  ELSE IF ~AllSameRank(new_cards) THEN FALSE
  ELSE IF ~AllSameRank(previous_cards[1]) THEN FALSE
  ELSE TRUE

can_beat_LongerAllowed(new_cards, previous_cards) ==
  IF previous_cards = None \/ Len(previous_cards[1]) = 0 THEN TRUE
  ELSE IF Len(new_cards) < Len(previous_cards[1]) THEN FALSE
  ELSE IF ~AllSameRank(new_cards) THEN FALSE
  ELSE IF ~AllSameRank(previous_cards[1]) THEN FALSE
  ELSE get_value(new_cards[1].rank) > get_value(previous_cards[1][1].rank)

\* Mutant of can_beat: a play of the same rank as the last one is let through.
can_beat_AllowsEqual(new_cards, previous_cards) ==
  IF previous_cards = None \/ Len(previous_cards[1]) = 0 THEN TRUE
  ELSE IF Len(new_cards) # Len(previous_cards[1]) THEN FALSE
  ELSE IF ~AllSameRank(new_cards) THEN FALSE
  ELSE IF ~AllSameRank(previous_cards[1]) THEN FALSE
  ELSE get_value(new_cards[1].rank) >= get_value(previous_cards[1][1].rank)

\* Mutant of can_beat: the cards to beat are taken to be of one rank, the
\* rank of their first card.
can_beat_TrustsPrevious(new_cards, previous_cards) ==
  IF previous_cards = None \/ Len(previous_cards[1]) = 0 THEN TRUE
  ELSE IF Len(new_cards) # Len(previous_cards[1]) THEN FALSE
  ELSE IF ~AllSameRank(new_cards) THEN FALSE
  ELSE get_value(new_cards[1].rank) > get_value(previous_cards[1][1].rank)

\* CardPatternChecker.can_beat(new_cards, previous_cards); previous_cards is
\* an Optional list.
can_beat(new_cards, previous_cards) ==
  IF previous_cards = None \/ Len(previous_cards[1]) = 0 THEN TRUE
  ELSE IF Len(new_cards) # Len(previous_cards[1]) THEN FALSE
  ELSE IF ~AllSameRank(new_cards) THEN FALSE
  ELSE IF ~AllSameRank(previous_cards[1]) THEN FALSE
  ELSE get_value(new_cards[1].rank) > get_value(previous_cards[1][1].rank)

\* The keys of rank_groups in insertion order: the ranks of the hand in order
\* of first occurrence.
RECURSIVE RankKeys(_, _)
RankKeys(cards, seen) ==
  IF cards = <<>> THEN <<>>
  ELSE IF Head(cards).rank \in seen THEN RankKeys(Tail(cards), seen)
       ELSE <<Head(cards).rank>> \o RankKeys(Tail(cards), seen \cup {Head(cards).rank})

\* Mutant of RankGroup: every card of the hand is put into every group.
RankGroup_WholeHand(cards, rank) == cards

\* rank_groups[rank]: the cards of that rank, in hand order.
RankGroup(cards, rank) == SelectSeq(cards, LAMBDA card : card.rank = rank)

\* Mutant of GroupPrefixes: only the whole group is offered.
GroupPrefixes_WholeGroupOnly(group) == <<group>>

\* The prefixes cards[:1], ..., cards[:len] of one rank group.
GroupPrefixes(group) == [count \in 1..Len(group) |-> Prefix(group, count)]

RECURSIVE ConcatGroups(_, _)
ConcatGroups(cards, keys) ==
  IF keys = <<>> THEN <<>>
  ELSE GroupPrefixes(RankGroup(cards, Head(keys))) \o ConcatGroups(cards, Tail(keys))

\* CardPatternChecker._find_all_valid_plays
find_all_valid_plays(hand_cards) ==
  IF hand_cards = <<>> THEN <<>>
  ELSE ConcatGroups(hand_cards, RankKeys(hand_cards, {}))

\* Mutant of KeepBeating: every combination of the hand is kept.
KeepBeating_KeepsAll(combinations, target_cards) == combinations

\* [combo for combo in all_combinations if can_beat(combo, target_cards)]
KeepBeating(combinations, target_cards) ==
  SelectSeq(combinations, LAMBDA combo : can_beat(combo, target_cards))

\* Mutant of find_all_beating_combinations: every combination with as many
\* cards as the target is returned, whatever its rank.
find_all_beating_combinations_AnyRank(hand_cards, target_cards) ==
  IF target_cards = None \/ Len(target_cards[1]) = 0
  THEN find_all_valid_plays(hand_cards)
  ELSE SelectSeq(ConcatGroups(hand_cards, RankKeys(hand_cards, {})),
                 LAMBDA combo : Len(combo) = Len(target_cards[1]))

\* CardPatternChecker.find_all_beating_combinations(hand_cards, target_cards)
find_all_beating_combinations(hand_cards, target_cards) ==
  IF target_cards = None \/ Len(target_cards[1]) = 0
  THEN find_all_valid_plays(hand_cards)
  ELSE KeepBeating(ConcatGroups(hand_cards, RankKeys(hand_cards, {})), target_cards)

-----------------------------------------------------------------------------
(* systems/deck_system.py                                                  *)

\* The cards one deck_id contributes: len(suits) * len(ranks) + 2 jokers.
CardsPerDeck == Len(DeckSuits) * Len(DeckRanks) + 2

\* Mutant of build_deck: every card is tagged with deck_id 0.
build_deck_SharedDeckId(deck_count, suits, ranks) ==
  LET per_deck == Len(suits) * Len(ranks) + 2
  IN  [k \in 1..(deck_count * per_deck) |->
         LET j == (k - 1) % per_deck
         IN  IF j < Len(suits) * Len(ranks)
             THEN Card(suits[(j \div Len(ranks)) + 1], ranks[(j % Len(ranks)) + 1], 0)
             ELSE IF j = Len(suits) * Len(ranks)
                  THEN Card("JOKER", "RED_JOKER", 0)
                  ELSE Card("JOKER", "BLACK_JOKER", 0)]

\* The loops of DeckSystem.create_deck over deck_count decks: for each
\* deck_id, every suit with every non-joker rank, then the red joker and the
\* black joker.
build_deck(deck_count, suits, ranks) ==
  LET per_deck == Len(suits) * Len(ranks) + 2
  IN  [k \in 1..(deck_count * per_deck) |->
         LET deck_id == (k - 1) \div per_deck
             j       == (k - 1) % per_deck
         IN  IF j < Len(suits) * Len(ranks)
             THEN Card(suits[(j \div Len(ranks)) + 1], ranks[(j % Len(ranks)) + 1],
                       deck_id)
             ELSE IF j = Len(suits) * Len(ranks)
                  THEN Card("JOKER", "RED_JOKER", deck_id)
                  ELSE Card("JOKER", "BLACK_JOKER", deck_id)]

\* DeckSystem.create_deck, on the decks, suits and ranks of the model.
create_deck == build_deck(DeckCount, DeckSuits, DeckRanks)

\* range(4) in create_deck.
FullDeckCount == 4

\* [Suit.HEART, Suit.DIAMOND, Suit.CLUB, Suit.SPADE]
FullSuits == <<"HEART", "DIAMOND", "CLUB", "SPADE">>

\* [r for r in Rank if r != Rank.RED_JOKER and r != Rank.BLACK_JOKER]
NonJokerRanks ==
  SelectSeq(RankMembers, LAMBDA r : r # "RED_JOKER" /\ r # "BLACK_JOKER")

\* The deck create_deck builds as the code stands: 4 decks, 4 suits, 13 ranks.
FullDeck == build_deck(FullDeckCount, FullSuits, NonJokerRanks)

RECURSIVE Gcd(_, _)
Gcd(a, b) == IF b = 0 THEN a ELSE Gcd(b, a % b)

\* One outcome of random.shuffle(deck): the permutation that reads the deck
\* with the given stride, moving on by one card each time the stride comes
\* back to where it started.  Stride 1 leaves the deck as it was.
StrideShuffle(d, stride) ==
  LET n     == Len(d)
      cycle == n \div Gcd(stride, n)
  IN  [i \in 1..n |-> d[((stride * (i - 1) + ((i - 1) \div cycle)) % n) + 1]]

\* DeckSystem.shuffle_deck: the outcomes of random.shuffle that are explored.
shuffle_deck(d) == {StrideShuffle(d, stride) : stride \in 1..ShuffleCount}

-----------------------------------------------------------------------------
(* systems/deal_system.py                                                  *)

Players == 0..5

\* len(players) != 6 in deal_all_cards: the players are the entities with a
\* PlayerComponent and a Hand, here the domain of `hands`.
WrongPlayerCount(hands) == Cardinality(DOMAIN hands) # 6

\* Mutant of deal_all_cards: each slice starts one card too early.
deal_all_cards_Overlapping(d, hands) ==
  IF WrongPlayerCount(hands) THEN hands
  ELSE LET cards_per_player == Len(d) \div 6
       IN  [i \in DOMAIN hands |->
              LET start_idx == IF i = 0 THEN 0 ELSE i * cards_per_player - 1
                  end_idx   == start_idx + cards_per_player
              IN  IF end_idx <= Len(d)
                  THEN SubSeq(d, start_idx + 1, end_idx)
                  ELSE hands[i]]

\* DealSystem.deal_all_cards, the hands it leaves: nothing is dealt unless
\* there are six players; then player i, the i-th created, gets
\* deck[i * cards_per_player : (i + 1) * cards_per_player].
deal_all_cards(d, hands) ==
  IF WrongPlayerCount(hands) THEN hands
  ELSE LET cards_per_player == Len(d) \div 6
       IN  [i \in DOMAIN hands |->
              LET start_idx == i * cards_per_player
                  end_idx   == start_idx + cards_per_player
              IN  IF end_idx <= Len(d)
                  THEN SubSeq(d, start_idx + 1, end_idx)
                  ELSE hands[i]]

\* DealSystem.deal_all_cards, the deck it leaves: `self.deck_system.deck = []`
\* is not reached when the player count is wrong.
deck_after_deal(d, hands) == IF WrongPlayerCount(hands) THEN d ELSE <<>>

\* list(Rank).index(rank)
RankIndex(rank) == CHOOSE i \in 1..Len(RankMembers) : RankMembers[i] = rank

\* The sort key of DealSystem.sort_and_display_hand, a pair compared
\* lexicographically, as one number.
DealSortKey(card) ==
  LET first  == IF card.rank = "RED_JOKER" THEN 0
                ELSE IF card.rank = "BLACK_JOKER" THEN 1 ELSE 2
      second == IF card.rank # "RED_JOKER" /\ card.rank # "BLACK_JOKER"
                THEN RankIndex(card.rank) - 1 ELSE 0
  IN  first * 100 + second

\* The sort key of PlaySystem.display_hand.
PlaySortKey(card) == get_value(card.rank)

\* sorted(cards, key = ...): a stable sort; byDealKey selects the key.
RECURSIVE InsertSorted(_, _, _)
InsertSorted(sortedCards, card, byDealKey) ==
  LET key(c) == IF byDealKey THEN DealSortKey(c) ELSE PlaySortKey(c)
  IN  IF sortedCards = <<>> THEN <<card>>
      ELSE IF key(Head(sortedCards)) <= key(card)
           THEN <<Head(sortedCards)>> \o InsertSorted(Tail(sortedCards), card, byDealKey)
           ELSE <<card>> \o sortedCards

RECURSIVE SortedBy(_, _)
SortedBy(cards, byDealKey) ==
  IF cards = <<>> THEN <<>>
  ELSE InsertSorted(SortedBy(SubSeq(cards, 1, Len(cards) - 1), byDealKey),
                    cards[Len(cards)], byDealKey)

-----------------------------------------------------------------------------
(* State                                                                   *)

VARIABLES
  is_ai,                     \* PlayerComponent.is_ai of players 0..5
  deck,                      \* DeckSystem.deck
  initialized,               \* DeckSystem.initialized
  dealt,                     \* DealSystem.dealt
  hand_cards,                \* Hand.cards of players 0..5
  hand_sorted,               \* Hand.sorted of players 0..5
  phase,                     \* GameStateComponent.phase
  current_player_id,         \* GameStateComponent.current_player_id
  human_player_id,           \* GameStateComponent.human_player_id
  players_without_cards,     \* GameStateComponent.players_without_cards
  rankings,                  \* GameStateComponent.rankings
  last_played_cards,         \* PlaySystem.last_played_cards (Optional)
  consecutive_passes,        \* PlaySystem.consecutive_passes
  last_effective_player_id,  \* PlaySystem.last_effective_player_id (Optional)
  passed_since_play,         \* history: who chose PASS since the last play
  passes_since_play,         \* history: how many PASS since the last play
  plays_in_trick,            \* history: how many plays since the play to beat was None
  pc,                        \* where GoujiGame.run is
  first_pass,                \* run is in its first esper.process() call
  run_state,                 \* whether run is running, has returned or has raised
  teamA_score,               \* run's local teamA_score
  teamB_score,               \* run's local teamB_score
  ev,                        \* what the last step printed
  arg_new_cards,             \* a direct call of can_beat: new_cards
  arg_previous_cards,        \* a direct call of can_beat: previous_cards (Optional)
  returned                   \* what the direct call returned (Optional)

gameVars ==
  <<phase, current_player_id, human_player_id, players_without_cards, rankings>>

playVars ==
  <<last_played_cards, consecutive_passes, last_effective_player_id,
    passed_since_play, passes_since_play, plays_in_trick>>

callVars == <<arg_new_cards, arg_previous_cards, returned>>

programVars ==
  <<is_ai, deck, initialized, dealt, hand_cards, hand_sorted, phase,
    current_player_id, human_player_id, players_without_cards, rankings,
    last_played_cards, consecutive_passes, last_effective_player_id,
    passed_since_play, passes_since_play, plays_in_trick, pc,
    first_pass, run_state, teamA_score, teamB_score, ev>>

vars == <<programVars, callVars>>

Event(kind, player, cards) == [kind |-> kind, player |-> player, cards |-> cards]

\* The values of the human_players argument of GoujiGame that are explored,
\* each with the human_player_id the game then runs with:
\* GameStateComponent() sets human_player_id to -1 and GoujiGame never
\* assigns it; a host that seats the human sets the field to that player's
\* id before run(), as the GameStateComponent of src/main.py does (0).
Configurations == {<<0, -1>>, <<1, -1>>, <<1, 0>>}

\* GoujiGame.create_players: human_players = max(0, min(human_players, 6));
\* is_ai = (i >= human_players).
create_players(human_players) ==
  LET clamped == IF human_players > 6 THEN 6
                 ELSE IF human_players < 0 THEN 0 ELSE human_players
  IN  [i \in Players |-> i >= clamped]

\* GoujiGame.__init__, and run up to its first esper.process().
Init ==
  /\ \E cfg \in Configurations :
       /\ is_ai = create_players(cfg[1])
       /\ human_player_id = cfg[2]
  /\ deck = <<>>
  /\ initialized = FALSE
  /\ dealt = FALSE
  /\ hand_cards = [i \in Players |-> <<>>]
  /\ hand_sorted = [i \in Players |-> FALSE]
  /\ phase = "dealing"
  /\ current_player_id = 0
  /\ players_without_cards = {}
  /\ rankings = <<>>
  /\ last_played_cards = None
  /\ consecutive_passes = 0
  /\ last_effective_player_id = None
  /\ passed_since_play = {}
  /\ passes_since_play = 0
  /\ plays_in_trick = 0
  /\ pc = "deck"
  /\ first_pass = TRUE
  /\ run_state = "running"
  /\ teamA_score = 0
  /\ teamB_score = 0
  /\ ev = Event("start", -1, <<>>)
  /\ arg_new_cards = <<>>
  /\ arg_previous_cards = None
  /\ returned = None

-----------------------------------------------------------------------------
(* DeckSystem.process                                                      *)

\* Mutant of DeckSystemProcess: the deck is built and shuffled on every pass.
DeckSystemProcess_BuildsEveryPass ==
  /\ pc = "deck"
  /\ deck' \in shuffle_deck(deck \o create_deck)
  /\ initialized' = TRUE
  /\ ev' = Event("deck", -1, <<>>)
  /\ pc' = "deal"
  /\ UNCHANGED <<callVars, is_ai, dealt, hand_cards, hand_sorted, gameVars, playVars,
                 first_pass, run_state, teamA_score, teamB_score>>

DeckSystemProcess ==
  /\ pc = "deck"
  /\ IF ~initialized
     THEN /\ deck' \in shuffle_deck(deck \o create_deck)
          /\ initialized' = TRUE
          /\ ev' = Event("deck", -1, <<>>)
     ELSE /\ UNCHANGED <<deck, initialized>>
          /\ ev' = Event("idle", -1, <<>>)
  /\ pc' = "deal"
  /\ UNCHANGED <<callVars, is_ai, dealt, hand_cards, hand_sorted, gameVars, playVars,
                 first_pass, run_state, teamA_score, teamB_score>>

-----------------------------------------------------------------------------
(* DealSystem.process                                                      *)

\* get_player_entity_by_id(player_id) is not None
HasPlayer(player_id) == player_id \in DOMAIN is_ai

\* DealSystem.display_human_player_cards: sort_and_display_hand on the hand
\* of the player human_player_id names, if there is one.
display_human_player_cards(hands) ==
  IF HasPlayer(human_player_id)
  THEN [hands EXCEPT ![human_player_id] = SortedBy(@, TRUE)]
  ELSE hands

\* Mutant of DealSystemProcess: the switch to "playing" is made on every
\* pass, not only on the pass that deals.
DealSystemProcess_SwitchesEveryPass ==
  /\ pc = "deal"
  /\ IF ~dealt
     THEN /\ hand_cards' = display_human_player_cards(deal_all_cards(deck, hand_cards))
          /\ hand_sorted' = [i \in DOMAIN hand_sorted |->
                                i = human_player_id \/ hand_sorted[i]]
          /\ deck' = deck_after_deal(deck, hand_cards)
          /\ dealt' = TRUE
          /\ current_player_id' \in 0..5
          /\ ev' = Event("deal", -1, <<>>)
     ELSE /\ UNCHANGED <<hand_cards, hand_sorted, deck, dealt, current_player_id>>
          /\ ev' = Event("idle", -1, <<>>)
  /\ phase' = "playing"
  /\ pc' = "play"
  /\ UNCHANGED <<callVars, is_ai, initialized, human_player_id, players_without_cards,
                 rankings, playVars, first_pass, run_state, teamA_score, teamB_score>>

DealSystemProcess ==
  /\ pc = "deal"
  /\ IF ~dealt
     THEN /\ hand_cards' = display_human_player_cards(deal_all_cards(deck, hand_cards))
          /\ hand_sorted' = [i \in DOMAIN hand_sorted |->
                                i = human_player_id \/ hand_sorted[i]]
          /\ deck' = deck_after_deal(deck, hand_cards)
          /\ dealt' = TRUE
          /\ phase' = "playing"
          /\ current_player_id' \in 0..5
          /\ ev' = Event("deal", -1, <<>>)
     ELSE /\ UNCHANGED <<hand_cards, hand_sorted, deck, dealt, phase, current_player_id>>
          /\ ev' = Event("idle", -1, <<>>)
  /\ pc' = "play"
  /\ UNCHANGED <<callVars, is_ai, initialized, human_player_id, players_without_cards,
                 rankings, playVars, first_pass, run_state, teamA_score, teamB_score>>

-----------------------------------------------------------------------------
(* PlaySystem                                                              *)

\* The while loop of find_next_player_with_cards.
RECURSIVE SkipFinished(_, _)
SkipFinished(next_id, without_cards) ==
  IF next_id \in without_cards
  THEN SkipFinished((next_id + 1) % 6, without_cards)
  ELSE next_id

\* Mutant of find_next_player_with_cards: the next seat, finished or not.
find_next_player_with_cards_NoSkip(current, without_cards) == (current + 1) % 6

\* Mutant of find_next_player_with_cards: an `if` in place of the `while`,
\* so that one finished seat is skipped and a second one is not.
find_next_player_with_cards_SkipsOnce(current, without_cards) ==
  LET next_id == (current + 1) % 6
  IN  IF Cardinality(without_cards) >= 5
      THEN IF Players \ without_cards # {}
           THEN CHOOSE i \in Players \ without_cards :
                  \A j \in Players \ without_cards : i <= j
           ELSE next_id
      ELSE IF next_id \in without_cards THEN (next_id + 1) % 6 ELSE next_id

\* PlaySystem.find_next_player_with_cards
find_next_player_with_cards(current, without_cards) ==
  LET next_id == (current + 1) % 6
  IN  IF Cardinality(without_cards) >= 5
      THEN IF Players \ without_cards # {}
           THEN CHOOSE i \in Players \ without_cards :
                  \A j \in Players \ without_cards : i <= j
           ELSE next_id
      ELSE SkipFinished(next_id, without_cards)

\* Mutant of active_players: the finished players are counted too.
active_players_CountsFinished == Cardinality(Players)

\* active_players = 6 - len(players_without_cards)
active_players == 6 - Cardinality(players_without_cards)

\* Mutant of PassResetsTrick: the owner's own seat is counted too.
PassResetsTrick_OffByOne(passes) == passes >= active_players

\* The test that resets the trick: consecutive_passes >= active_players - 1.
PassResetsTrick(passes) == passes >= active_players - 1

\* Mutant of Pass: the reset zeroes the count and forgets to clear the play
\* to beat.
Pass_KeepsPlay(player) ==
  /\ last_played_cards' = last_played_cards
  /\ IF PassResetsTrick(consecutive_passes + 1)
     THEN /\ consecutive_passes' = 0
          /\ passed_since_play' = {}
     ELSE /\ consecutive_passes' = consecutive_passes + 1
          /\ passed_since_play' = passed_since_play \cup {player}
  /\ current_player_id' =
       find_next_player_with_cards(current_player_id, players_without_cards)
  /\ passes_since_play' = passes_since_play + 1
  /\ plays_in_trick' = IF last_played_cards' = None THEN 0 ELSE plays_in_trick
  /\ ev' = Event("pass", player, <<>>)
  /\ UNCHANGED <<hand_cards, last_effective_player_id, players_without_cards,
                 rankings, phase>>

\* Mutant of Pass: the reset clears the last effective player together with
\* the play to beat.
Pass_ResetClearsOwner(player) ==
  /\ IF PassResetsTrick(consecutive_passes + 1)
     THEN /\ last_played_cards' = None
          /\ consecutive_passes' = 0
          /\ passed_since_play' = {}
          /\ last_effective_player_id' = None
     ELSE /\ last_played_cards' = last_played_cards
          /\ consecutive_passes' = consecutive_passes + 1
          /\ passed_since_play' = passed_since_play \cup {player}
          /\ last_effective_player_id' = last_effective_player_id
  /\ current_player_id' =
       find_next_player_with_cards(current_player_id, players_without_cards)
  /\ passes_since_play' = passes_since_play + 1
  /\ plays_in_trick' = IF last_played_cards' = None THEN 0 ELSE plays_in_trick
  /\ ev' = Event("pass", player, <<>>)
  /\ UNCHANGED <<hand_cards, players_without_cards, rankings, phase>>

\* Mutant of Pass: the reset clears the play to beat and leaves the count
\* as it is.
Pass_ResetKeepsCount(player) ==
  /\ IF PassResetsTrick(consecutive_passes + 1)
     THEN /\ last_played_cards' = None
          /\ consecutive_passes' = consecutive_passes + 1
          /\ passed_since_play' = {}
     ELSE /\ last_played_cards' = last_played_cards
          /\ consecutive_passes' = consecutive_passes + 1
          /\ passed_since_play' = passed_since_play \cup {player}
  /\ current_player_id' =
       find_next_player_with_cards(current_player_id, players_without_cards)
  /\ passes_since_play' = passes_since_play + 1
  /\ plays_in_trick' = IF last_played_cards' = None THEN 0 ELSE plays_in_trick
  /\ ev' = Event("pass", player, <<>>)
  /\ UNCHANGED <<hand_cards, last_effective_player_id, players_without_cards,
                 rankings, phase>>

\* The PASS branch of handle_ai_turn and of handle_human_turn.
Pass(player) ==
  /\ IF PassResetsTrick(consecutive_passes + 1)
     THEN /\ last_played_cards' = None
          /\ consecutive_passes' = 0
          /\ passed_since_play' = {}
     ELSE /\ last_played_cards' = last_played_cards
          /\ consecutive_passes' = consecutive_passes + 1
          /\ passed_since_play' = passed_since_play \cup {player}
  /\ current_player_id' =
       find_next_player_with_cards(current_player_id, players_without_cards)
  /\ passes_since_play' = passes_since_play + 1
  /\ plays_in_trick' = IF last_played_cards' = None THEN 0 ELSE plays_in_trick
  /\ ev' = Event("pass", player, <<>>)
  /\ UNCHANGED <<hand_cards, last_effective_player_id, players_without_cards,
                 rankings, phase>>

\* Mutants of FinishPlayer: the game ends with the fourth finish; the fifth
\* finish leaves the end of the game to the next PlaySystem.process; the
\* finish is not recorded in players_without_cards.
FinishPlayer_EndsAtFour(player) ==
  /\ players_without_cards' = players_without_cards \cup {player}
  /\ rankings' = Append(rankings, player)
  /\ IF Cardinality(players_without_cards \cup {player}) = 4
     THEN /\ phase' = "game_over"
          /\ current_player_id' = current_player_id
     ELSE /\ phase' = phase
          /\ current_player_id' =
               find_next_player_with_cards(current_player_id,
                                           players_without_cards \cup {player})

FinishPlayer_Deferred(player) ==
  /\ players_without_cards' = players_without_cards \cup {player}
  /\ rankings' = Append(rankings, player)
  /\ phase' = phase
  /\ current_player_id' =
       find_next_player_with_cards(current_player_id,
                                   players_without_cards \cup {player})

FinishPlayer_SetForgotten(player) ==
  /\ players_without_cards' = players_without_cards
  /\ rankings' = Append(rankings, player)
  /\ phase' = phase
  /\ current_player_id' =
       find_next_player_with_cards(current_player_id, players_without_cards)

\* Mutant of FinishPlayer: the handler ends the game only when all six
\* players have finished.
FinishPlayer_EndsAtSix(player) ==
  /\ players_without_cards' = players_without_cards \cup {player}
  /\ rankings' = Append(rankings, player)
  /\ IF Cardinality(players_without_cards \cup {player}) = 6
     THEN /\ phase' = "game_over"
          /\ current_player_id' = current_player_id
     ELSE /\ phase' = phase
          /\ current_player_id' =
               find_next_player_with_cards(current_player_id,
                                           players_without_cards \cup {player})

\* What both turn handlers do once a player has emptied the hand: record the
\* finish, and end the game when five players have finished.
FinishPlayer(player) ==
  /\ players_without_cards' = players_without_cards \cup {player}
  /\ rankings' = Append(rankings, player)
  /\ IF Cardinality(players_without_cards \cup {player}) = 5
     THEN /\ phase' = "game_over"
          /\ current_player_id' = current_player_id
     ELSE /\ phase' = phase
          /\ current_player_id' =
               find_next_player_with_cards(current_player_id,
                                           players_without_cards \cup {player})

\* Mutant of Play: the finish is recorded when at most one card is left.
Play_FinishWithOneLeft(player, current_played_cards) ==
  /\ hand_cards' = [hand_cards EXCEPT ![player] = RemoveAll(@, current_played_cards)]
  /\ last_played_cards' = Some(current_played_cards)
  /\ consecutive_passes' = 0
  /\ last_effective_player_id' = Some(player)
  /\ passed_since_play' = {}
  /\ passes_since_play' = 0
  /\ plays_in_trick' = IF last_played_cards = None THEN 1 ELSE plays_in_trick + 1
  /\ ev' = Event("play", player, current_played_cards)
  /\ IF Len(RemoveAll(hand_cards[player], current_played_cards)) <= 1
     THEN FinishPlayer(player)
     ELSE /\ current_player_id' =
               find_next_player_with_cards(current_player_id, players_without_cards)
          /\ UNCHANGED <<players_without_cards, rankings, phase>>

\* The cards of a play leave the hand, and the play becomes the one to beat.
Play(player, current_played_cards) ==
  /\ hand_cards' = [hand_cards EXCEPT ![player] = RemoveAll(@, current_played_cards)]
  /\ last_played_cards' = Some(current_played_cards)
  /\ consecutive_passes' = 0
  /\ last_effective_player_id' = Some(player)
  /\ passed_since_play' = {}
  /\ passes_since_play' = 0
  /\ plays_in_trick' = IF last_played_cards = None THEN 1 ELSE plays_in_trick + 1
  /\ ev' = Event("play", player, current_played_cards)
  /\ IF RemoveAll(hand_cards[player], current_played_cards) = <<>>
     THEN FinishPlayer(player)
     ELSE /\ current_player_id' =
               find_next_player_with_cards(current_player_id, players_without_cards)
          /\ UNCHANGED <<players_without_cards, rankings, phase>>

\* Mutant of handle_ai_turn: the play is chosen among all valid plays of the
\* hand, whatever the play to beat.
handle_ai_turn_IgnoresLastPlay ==
  LET hand == hand_cards[current_player_id]
      combinations == find_all_valid_plays(hand)
  IN  IF hand # <<>>
      THEN \E k \in 1..Len(combinations) :
             Play(current_player_id, combinations[k])
      ELSE /\ current_player_id' =
                find_next_player_with_cards(current_player_id, players_without_cards)
           /\ ev' = Event("idle", current_player_id, <<>>)
           /\ UNCHANGED <<hand_cards, playVars, players_without_cards, rankings, phase>>

\* PlaySystem.handle_ai_turn
handle_ai_turn ==
  IF ~HasPlayer(current_player_id)
  THEN /\ ev' = Event("idle", current_player_id, <<>>)
       /\ UNCHANGED <<hand_cards, playVars, players_without_cards, rankings, phase,
                      current_player_id>>
  ELSE
  LET hand == hand_cards[current_player_id]
      beating_combinations ==
        find_all_beating_combinations(hand, last_played_cards)
  IN  IF hand # <<>>
      THEN IF beating_combinations = <<>>
           THEN Pass(current_player_id)
           ELSE \E k \in 1..Len(beating_combinations) :
                  Play(current_player_id, beating_combinations[k])
      ELSE /\ current_player_id' =
                find_next_player_with_cards(current_player_id, players_without_cards)
           /\ ev' = Event("idle", current_player_id, <<>>)
           /\ UNCHANGED <<hand_cards, playVars, players_without_cards, rankings, phase>>

-----------------------------------------------------------------------------
(* PlaySystem.handle_human_turn: the text the player types                 *)

\* str.strip()
RECURSIVE LStrip(_)
LStrip(text) ==
  IF text # <<>> /\ Head(text) = " " THEN LStrip(Tail(text)) ELSE text

RECURSIVE RStrip(_)
RStrip(text) ==
  IF text # <<>> /\ text[Len(text)] = " "
  THEN RStrip(SubSeq(text, 1, Len(text) - 1))
  ELSE text

strip(text) == RStrip(LStrip(text))

\* str.lower(), on the letters the inputs use.
LowerChar(c) ==
  CASE c = "P" -> "p"
    [] c = "E" -> "e"
    [] c = "X" -> "x"
    [] c = "I" -> "i"
    [] c = "T" -> "t"
    [] OTHER   -> c

lower(text) == [i \in 1..Len(text) |-> LowerChar(text[i])]

\* str.split(): the maximal runs of non-space characters.
RECURSIVE SplitFrom(_, _)
SplitFrom(text, word) ==
  IF text = <<>> THEN (IF word = <<>> THEN <<>> ELSE <<word>>)
  ELSE IF Head(text) = " "
       THEN (IF word = <<>> THEN <<>> ELSE <<word>>) \o SplitFrom(Tail(text), <<>>)
       ELSE SplitFrom(Tail(text), Append(word, Head(text)))

split(text) == SplitFrom(text, <<>>)

\* [card for card in cards if card.get_rank_display() == rank]
CardsOfLabel(cards, rank) ==
  FilterSeq(cards, {c \in Range(cards) : get_rank_display(c) = rank})

\* PlaySystem.count_cards_by_rank: `rank in card_counts` and card_counts[rank].
InCardCounts(cards, rank) == CardsOfLabel(cards, rank) # <<>>
CardCount(cards, rank) == Len(CardsOfLabel(cards, rank))

\* PlaySystem.find_cards_by_rank: the first `count` cards showing `rank`.
find_cards_by_rank(cards, rank, count) == Prefix(CardsOfLabel(cards, rank), count)

\* random.sample(candidates, count): every choice of `count` of the
\* candidates, listed in hand order.
sample(candidates, count) ==
  {FilterSeq(candidates, chosen) :
     chosen \in {t \in SUBSET Range(candidates) : Cardinality(t) = count}}

\* Lines 120-173 of handle_human_turn: from the text typed to the cards
\* played.  `error` names the message printed when the text is refused, and
\* `plays` holds the possible values of current_played_cards otherwise.
Refused(message) == [error |-> message, plays |-> {}]
Chosen(plays) == [error |-> "", plays |-> plays]

ParsePlay(cards, card_input) ==
  IF \E i \in 1..Len(card_input) : card_input[i] = " "
  THEN LET parts == split(card_input)
       IN  IF Cardinality(Range(parts)) = 1
           THEN LET rank_value == parts[1]
                    count      == Len(parts)
                IN  IF InCardCounts(cards, rank_value)
                       /\ CardCount(cards, rank_value) >= count
                    THEN Chosen(sample(CardsOfLabel(cards, rank_value), count))
                    ELSE Refused("no_such_count")
           ELSE Refused("format")
  ELSE IF Cardinality(Range(card_input)) = 1 /\ Len(card_input) > 1
  THEN LET rank_value == card_input[1]
           count      == Len(card_input)
           red        == <<"Da", "Wang">>
           black      == <<"Xiao", "Wang">>
       IN  IF rank_value = "Da" /\ InCardCounts(cards, red)
              /\ CardCount(cards, red) >= count
           THEN Chosen({find_cards_by_rank(cards, red, count)})
           ELSE IF rank_value = "Xiao" /\ InCardCounts(cards, black)
                   /\ CardCount(cards, black) >= count
           THEN Chosen({find_cards_by_rank(cards, black, count)})
           ELSE IF InCardCounts(cards, <<rank_value>>)
                   /\ CardCount(cards, <<rank_value>>) >= count
           THEN Chosen({find_cards_by_rank(cards, <<rank_value>>, count)})
           ELSE Refused("no_such_count")
  ELSE IF card_input \in {<<"R", "J">>, <<"B", "J">>} /\ InCardCounts(cards, card_input)
       THEN Chosen({find_cards_by_rank(cards, card_input, 1)})
       ELSE IF Len(card_input) \in {1, 2} /\ InCardCounts(cards, card_input)
       THEN Chosen({find_cards_by_rank(cards, card_input, 1)})
       ELSE Refused("no_such_card")

\* The texts the human player types: nothing, a pass, exit, single cards,
\* runs ("AA"), spaced lists ("A A"), the joker labels, and texts that name
\* cards the hand cannot hold.
HumanInputs ==
  { <<>>, <<" ">>, <<"p">>, <<"P">>, <<"e", "x", "i", "t">>,
    <<"A">>, <<"3">>, <<"K">>, <<"R", "J">>,
    <<"A", "A">>, <<"3", "3">>, <<"A", "A", "A">>,
    <<"A", " ", "A">>, <<"3", " ", "3">>, <<"A", " ", "3">>,
    <<"Da", "Wang">>, <<"Xiao", "Wang">>, <<"Da", "Da">>, <<"Xiao", "Xiao">>,
    <<"Da", "Wang", " ", "Da", "Wang">> }

\* Mutant of IsLastEffectivePlayer: the owner of the trick is never recognised.
IsLastEffectivePlayer_Never(player_id) == FALSE

\* game_state.current_player_id == self.last_effective_player_id
IsLastEffectivePlayer(player_id) == Some(player_id) = last_effective_player_id

\* Mutant of FailsToBeat: the comparison with the last play is skipped.
FailsToBeat_Never(current_played_cards) == FALSE

\* Lines 176-177: there is a play to beat and can_beat says no.
FailsToBeat(current_played_cards) ==
  /\ last_played_cards # None
  /\ ~can_beat(current_played_cards, last_played_cards)

\* Mutant of RejectInput: the loop is left (break) instead of asking again.
RejectInput_LeavesLoop(message) ==
  /\ pc' = "processed"
  /\ ev' = Event(message, human_player_id, <<>>)
  /\ current_player_id' =
       find_next_player_with_cards(current_player_id, players_without_cards)
  /\ UNCHANGED <<hand_cards, playVars, phase, players_without_cards, rankings>>

\* A refused text: the message is printed and the loop asks again.
RejectInput(message) ==
  /\ pc' = "human_input"
  /\ ev' = Event(message, human_player_id, <<>>)
  /\ UNCHANGED <<hand_cards, playVars, phase, current_player_id,
                 players_without_cards, rankings>>

\* One round of the while loop of handle_human_turn, on the text typed.
HumanInput(typed) ==
  LET card_input == strip(typed)
      hand       == hand_cards[human_player_id]
      parsed     == ParsePlay(hand, card_input)
  IN  IF card_input = <<>> THEN RejectInput("empty_input")
      ELSE IF lower(card_input) = <<"e", "x", "i", "t">>
      THEN /\ pc' = "exited"
           /\ ev' = Event("exit", human_player_id, <<>>)
           /\ UNCHANGED <<hand_cards, playVars, phase, current_player_id,
                          players_without_cards, rankings>>
      ELSE IF lower(card_input) = <<"p">>
      THEN IF IsLastEffectivePlayer(current_player_id)
           THEN RejectInput("owner_cannot_pass")
           ELSE /\ Pass(human_player_id)
                /\ pc' = "processed"
      ELSE IF parsed.error # ""
      THEN RejectInput(parsed.error)
      ELSE \E current_played_cards \in parsed.plays :
             IF FailsToBeat(current_played_cards)
             THEN RejectInput("cannot_beat")
             ELSE /\ Play(human_player_id, current_played_cards)
                  /\ pc' = "processed"

\* handle_human_turn waiting in input(): the player types a text.
HumanTurnInput ==
  /\ pc = "human_input"
  /\ \E typed \in HumanInputs : HumanInput(typed)
  /\ UNCHANGED <<callVars, is_ai, deck, initialized, dealt, hand_sorted, human_player_id,
                 first_pass, run_state, teamA_score, teamB_score>>

\* handle_human_turn waiting in input(): KeyboardInterrupt ends the turn
\* handler and changes nothing.
HumanTurnInterrupt ==
  /\ pc = "human_input"
  /\ pc' = "processed"
  /\ ev' = Event("interrupt", human_player_id, <<>>)
  /\ UNCHANGED <<callVars, is_ai, deck, initialized, dealt, hand_cards, hand_sorted,
                 gameVars, playVars, first_pass, run_state, teamA_score, teamB_score>>

\* The start of handle_human_turn: display_hand sorts the hand once, then
\* the loop waits for the player's text.
display_hand(player) ==
  /\ hand_cards' = [hand_cards EXCEPT ![player] =
                      IF hand_sorted[player] THEN @ ELSE SortedBy(@, FALSE)]
  /\ hand_sorted' = [hand_sorted EXCEPT ![player] = TRUE]

handle_human_turn ==
  IF HasPlayer(human_player_id)
  THEN /\ display_hand(human_player_id)
       /\ pc' = "human_input"
       /\ ev' = Event("prompt", human_player_id, <<>>)
       /\ UNCHANGED <<playVars, phase, current_player_id, players_without_cards,
                      rankings>>
  ELSE /\ pc' = "processed"
       /\ ev' = Event("idle", -1, <<>>)
       /\ UNCHANGED <<hand_cards, hand_sorted, playVars, phase, current_player_id,
                      players_without_cards, rankings>>

\* PlaySystem.process
PlaySystemProcess ==
  /\ pc = "play"
  /\ IF phase = "playing"
     THEN IF Cardinality(players_without_cards) = 5
          THEN /\ phase' = "game_over"
               /\ pc' = "processed"
               /\ ev' = Event("game_over", -1, <<>>)
               /\ UNCHANGED <<hand_cards, hand_sorted, playVars, current_player_id,
                              players_without_cards, rankings>>
          ELSE IF current_player_id = human_player_id
               THEN handle_human_turn
               ELSE /\ handle_ai_turn
                    /\ pc' = "processed"
                    /\ UNCHANGED hand_sorted
     ELSE /\ pc' = "processed"
          /\ ev' = Event("idle", -1, <<>>)
          /\ UNCHANGED <<hand_cards, hand_sorted, playVars, phase, current_player_id,
                         players_without_cards, rankings>>
  /\ UNCHANGED <<callVars, is_ai, deck, initialized, dealt, human_player_id, first_pass,
                 run_state, teamA_score, teamB_score>>

-----------------------------------------------------------------------------
(* GoujiGame.run                                                           *)

\* create_players: team A for even ids, team B for odd ids.
TeamOf(player_id) == IF player_id % 2 = 0 THEN "A" ELSE "B"

\* PlayerComponent.__init__ sets name, player_id and is_ai, and nothing
\* else: a PlayerComponent has no attribute `score`.
PlayerComponentHasScore == FALSE

\* The scoring loop of run, `for rank, player_id in enumerate(rankings)`,
\* from index rank on.  `player_component.score += score_change` raises
\* AttributeError when the component has no score; the loop ends there.
RECURSIVE ScoreRankings(_, _, _)
ScoreRankings(rank, a, b) ==
  IF rank >= Len(rankings) THEN [a |-> a, b |-> b, raised |-> FALSE]
  ELSE LET player_id    == rankings[rank + 1]
           score_change == get_score_by_rank(rank)
           a2 == IF HasPlayer(player_id) /\ TeamOf(player_id) = "A"
                 THEN a + score_change ELSE a
           b2 == IF HasPlayer(player_id) /\ TeamOf(player_id) # "A"
                 THEN b + score_change ELSE b
       IN  IF HasPlayer(player_id) /\ ~PlayerComponentHasScore
           THEN [a |-> a2, b |-> b2, raised |-> TRUE]
           ELSE ScoreRankings(rank + 1, a2, b2)

\* The block `if len(game_state.rankings) == 5` of run: the player missing
\* from rankings costs its team 2 points.
LastPlaceAdjusted(scores) ==
  IF Len(rankings) = 5 /\ Players \ Range(rankings) # {}
  THEN LET last_player_id == CHOOSE i \in Players \ Range(rankings) :
                               \A j \in Players \ Range(rankings) : i <= j
       IN  IF TeamOf(last_player_id) = "A"
           THEN [scores EXCEPT !.a = @ - 2]
           ELSE [scores EXCEPT !.b = @ - 2]
  ELSE scores

\* Mutant of RunNext: the scoring appends the player left with cards to
\* rankings instead of only looking it up.
RunNext_AppendsLast ==
  /\ pc = "processed"
  /\ IF run_state # "running"
     THEN /\ pc' = "idle"
          /\ ev' = Event("idle", -1, <<>>)
          /\ UNCHANGED <<first_pass, run_state, teamA_score, teamB_score, rankings>>
     ELSE IF first_pass \/ phase # "game_over"
     THEN /\ pc' = "deck"
          /\ first_pass' = FALSE
          /\ ev' = Event("loop", -1, <<>>)
          /\ UNCHANGED <<run_state, teamA_score, teamB_score, rankings>>
     ELSE LET scored == ScoreRankings(0, 0, 0)
              final  == IF scored.raised THEN scored ELSE LastPlaceAdjusted(scored)
          IN  /\ teamA_score' = final.a
              /\ teamB_score' = final.b
              /\ run_state' = IF scored.raised THEN "raised" ELSE "returned"
              /\ rankings' = rankings \o
                   [k \in 1..Cardinality(Players \ Range(rankings)) |->
                      CHOOSE i \in Players \ Range(rankings) : TRUE]
              /\ pc' = "idle"
              /\ ev' = Event("score", -1, <<>>)
              /\ UNCHANGED first_pass
  /\ UNCHANGED <<callVars, is_ai, deck, initialized, dealt, hand_cards, hand_sorted,
                 phase, current_player_id, human_player_id,
                 players_without_cards, playVars>>

\* run, after an esper.process() call has come back: the first call is
\* followed by the loop's call; in the loop, game_over leads to the scoring
\* and ends run, anything else to the next call.  Once run has ended, the
\* pass that came back was the host's own (HostProcess).
RunNext ==
  /\ pc = "processed"
  /\ IF run_state # "running"
     THEN /\ pc' = "idle"
          /\ ev' = Event("idle", -1, <<>>)
          /\ UNCHANGED <<first_pass, run_state, teamA_score, teamB_score>>
     ELSE IF first_pass \/ phase # "game_over"
     THEN /\ pc' = "deck"
          /\ first_pass' = FALSE
          /\ ev' = Event("loop", -1, <<>>)
          /\ UNCHANGED <<run_state, teamA_score, teamB_score>>
     ELSE LET scored == ScoreRankings(0, 0, 0)
              final  == IF scored.raised THEN scored ELSE LastPlaceAdjusted(scored)
          IN  /\ teamA_score' = final.a
              /\ teamB_score' = final.b
              /\ run_state' = IF scored.raised THEN "raised" ELSE "returned"
              /\ pc' = "idle"
              /\ ev' = Event("score", -1, <<>>)
              /\ UNCHANGED first_pass
  /\ UNCHANGED <<callVars, is_ai, deck, initialized, dealt, hand_cards, hand_sorted,
                 gameVars, playVars>>

\* After run has ended the processors stay registered: a host may call
\* esper.process() again.
HostProcess ==
  /\ pc = "idle"
  /\ pc' = "deck"
  /\ ev' = Event("host", -1, <<>>)
  /\ UNCHANGED <<callVars, is_ai, deck, initialized, dealt, hand_cards, hand_sorted,
                 gameVars, playVars, first_pass, run_state, teamA_score,
                 teamB_score>>

Next ==
  \/ DeckSystemProcess
  \/ DealSystemProcess
  \/ PlaySystemProcess
  \/ HumanTurnInput
  \/ HumanTurnInterrupt
  \/ RunNext
  \/ HostProcess

Spec == Init /\ [][Next]_vars

\* The steps the program takes by itself: the three processors of one
\* esper.process() call and run's loop around it.  The text a human types
\* and a host's later call are not the program's to take.
ProgramStep ==
  DeckSystemProcess \/ DealSystemProcess \/ PlaySystemProcess \/ RunNext

\* run calls esper.process() again and again, and an AI turn never waits.
FairSpec == Spec /\ WF_vars(ProgramStep)

\* GoujiGame(human_players=0): create_players makes six AI players and no
\* human turn is ever taken, so no text is read.
AiInit == Init /\ human_player_id = -1 /\ \A i \in Players : is_ai[i]

AiNext ==
  \/ DeckSystemProcess
  \/ DealSystemProcess
  \/ PlaySystemProcess
  \/ RunNext
  \/ HostProcess

AiFairSpec == AiInit /\ [][AiNext]_vars /\ WF_vars(ProgramStep)

\* The three processors in a world a host has filled itself: player_count
\* entities with a PlayerComponent and a Hand, ids 0, 1, ... in creation
\* order, all AI, one GameStateComponent, and no run in progress: the host
\* calls esper.process() itself.
HostInit ==
  /\ \E player_count \in 0..MaxPlayers :
       /\ is_ai = [i \in 0..(player_count - 1) |-> TRUE]
       /\ hand_cards = [i \in 0..(player_count - 1) |-> <<>>]
       /\ hand_sorted = [i \in 0..(player_count - 1) |-> FALSE]
  /\ human_player_id = -1
  /\ deck = <<>>
  /\ initialized = FALSE
  /\ dealt = FALSE
  /\ phase = "dealing"
  /\ current_player_id = 0
  /\ players_without_cards = {}
  /\ rankings = <<>>
  /\ last_played_cards = None
  /\ consecutive_passes = 0
  /\ last_effective_player_id = None
  /\ passed_since_play = {}
  /\ passes_since_play = 0
  /\ plays_in_trick = 0
  /\ pc = "idle"
  /\ first_pass = FALSE
  /\ run_state = "returned"
  /\ teamA_score = 0
  /\ teamB_score = 0
  /\ ev = Event("start", -1, <<>>)
  /\ arg_new_cards = <<>>
  /\ arg_previous_cards = None
  /\ returned = None

HostSpec == HostInit /\ [][AiNext]_vars

-----------------------------------------------------------------------------
(* CardPatternChecker called directly, as the tests call it                *)

\* The cards the calls are made with.
CallCards ==
  {Card("HEART", "THREE", 0), Card("SPADE", "ACE", 0),
   Card("JOKER", "BLACK_JOKER", 0)}

\* The lists of at most MaxCallCards of these cards.
CardLists == UNION {[1..n -> CallCards] : n \in 0..MaxCallCards}

\* CardPatternChecker.can_beat(new_cards, previous_cards), previous_cards
\* being None, an empty list or a list of cards.
CallCanBeat ==
  /\ \E new_list \in CardLists,
        previous \in {None} \cup {Some(list) : list \in CardLists} :
       /\ arg_new_cards' = new_list
       /\ arg_previous_cards' = previous
       /\ returned' = Some(can_beat(new_list, previous))
  /\ UNCHANGED programVars

CallNext == CallCanBeat

CallSpec == AiInit /\ [][CallNext]_vars

\* rank1.get_value(), rank2.get_value() and the comparison of one card of
\* rank1 with one card of rank2, for every two ranks: what is returned is the
\* two values and the answer of can_beat.
CallGetValue ==
  /\ \E rank1, rank2 \in Rank :
       /\ arg_new_cards' = <<Card("HEART", rank1, 0)>>
       /\ arg_previous_cards' = Some(<<Card("HEART", rank2, 0)>>)
       /\ returned' = Some(<<get_value(rank1), get_value(rank2),
                             can_beat(<<Card("HEART", rank1, 0)>>,
                                      Some(<<Card("HEART", rank2, 0)>>))>>)
  /\ UNCHANGED programVars

RankSpec == AiInit /\ [][CallGetValue]_vars

\* The cards of the hands the combination search is called with: two ranks,
\* two cards of each.
FindCards ==
  {Card("HEART", "FOUR", 1), Card("DIAMOND", "FOUR", 1),
   Card("CLUB", "TWO", 1), Card("SPADE", "TWO", 1)}

\* The hands: the lists of at most MaxCallCards + 1 different cards.
HandLists ==
  UNION {{hand \in [1..n -> FindCards] :
            \A i, j \in 1..n : hand[i] = hand[j] => i = j} :
         n \in 0..(MaxCallCards + 1)}

\* CardPatternChecker.find_all_beating_combinations(hand_cards, target_cards):
\* the two arguments are kept in arg_new_cards and arg_previous_cards.
CallFindAll ==
  /\ returned = None
  /\ \E hand \in HandLists,
        target \in {None} \cup {Some(list) : list \in CardLists} :
       /\ arg_new_cards' = hand
       /\ arg_previous_cards' = target
       /\ returned' = Some(find_all_beating_combinations(hand, target))
  /\ UNCHANGED programVars

\* The caller is done with the list returned and may call again.
CallDone ==
  /\ returned # None
  /\ arg_new_cards' = <<>>
  /\ arg_previous_cards' = None
  /\ returned' = None
  /\ UNCHANGED programVars

FindNext == CallFindAll \/ CallDone

FindSpec == AiInit /\ [][FindNext]_vars

\* ScoringRules.get_score_by_rank(rank) called directly: returned holds the
\* position given and the score that came back.
CallGetScore ==
  /\ \E rank \in (-MaxPosition)..MaxPosition :
       returned' = Some(<<rank, get_score_by_rank(rank)>>)
  /\ UNCHANGED <<programVars, arg_new_cards, arg_previous_cards>>

ScoreSpec == AiInit /\ [][CallGetScore]_vars

-----------------------------------------------------------------------------
(* Properties                                                              *)

NoDuplicates(s) == \A i, j \in 1..Len(s) : s[i] = s[j] => i = j

AllAi == human_player_id = -1 /\ \A i \in Players : is_ai[i]

\* The first id after `current` in the rotation (id + 1) % 6 that is not in
\* `without_cards`.
NextActive(current, without_cards) ==
  LET k == CHOOSE k \in 1..6 :
             /\ (current + k) % 6 \notin without_cards
             /\ \A j \in 1..(k - 1) : (current + j) % 6 \in without_cards
  IN  (current + k) % 6

\* The messages of a refused human submission.
RefusalKinds ==
  {"empty_input", "owner_cannot_pass", "no_such_count", "format",
   "no_such_card", "cannot_beat"}

\* C1: a game created with human_players = 0, in which every player is AI,
\* eventually reaches phase game_over when run keeps processing turns.
C1_AllAiGameEnds == AllAi => <>(phase = "game_over")

C1_Witness == AllAi /\ phase = "game_over" /\ Len(rankings) = 5

C3_FifthFinishEndsGame ==
  [][ /\ (Len(rankings) = 4 /\ Len(rankings') = 5) =>
          /\ phase' = "game_over"
          /\ current_player_id' = current_player_id
          /\ current_player_id = rankings'[5]
      /\ Len(rankings') = 5 => phase' = "game_over" ]_vars

C3_Witness ==
  /\ Len(rankings) = 5
  /\ phase = "game_over"
  /\ pc = "processed"
  /\ current_player_id = rankings[5]

\* C4: once phase is game_over, no step (the scoring of run, or a later
\* processing pass) changes phase, current_player_id, rankings,
\* players_without_cards, any hand, the last play, the pass count or the
\* last effective player.
C4_GameOverIsFinal ==
  [][ phase = "game_over" =>
        UNCHANGED <<phase, current_player_id, rankings, players_without_cards,
                    hand_cards, last_played_cards, consecutive_passes,
                    last_effective_player_id>> ]_vars

C4_Witness ==
  /\ phase = "game_over"
  /\ run_state # "running"
  /\ pc = "processed"

\* C5: rankings never holds an id twice, never has more than 6 entries, is
\* as a set equal to players_without_cards, and changes only by one id
\* being appended.
C5_RankingsGrowByAppending ==
  /\ rankings = <<>> /\ players_without_cards = {}
  /\ [][ /\ NoDuplicates(rankings')
         /\ Len(rankings') <= 6
         /\ Range(rankings') = players_without_cards'
         /\ \/ rankings' = rankings
            \/ \E p \in Players : rankings' = Append(rankings, p) ]_vars

C5_Witness == Len(rankings) >= 3 /\ phase = "playing"

\* C6: while the human player to act is the last effective player, no
\* submission is taken as a pass, whatever the play to beat is: the pass is
\* refused.
C6_OwnerPassRefused ==
  [][ (pc = "human_input" /\ Some(current_player_id) = last_effective_player_id)
        => ev'.kind # "pass" ]_vars

C6_Witness ==
  /\ ev.kind = "owner_cannot_pass"
  /\ Some(current_player_id) = last_effective_player_id
  /\ last_played_cards = None

\* C7: a human play is accepted only if it beats the play on the table: when
\* there is one and the cards do not beat it, the submission is refused.
C7_HumanPlayMustBeat ==
  [][ (pc = "human_input" /\ ev'.kind = "play") =>
        /\ can_beat(ev'.cards, last_played_cards)
        /\ last_played_cards # None =>
             /\ Len(ev'.cards) = Len(last_played_cards[1])
             /\ get_value(ev'.cards[1].rank) > get_value(last_played_cards[1][1].rank) ]_vars

C7_Witness ==
  /\ ev.kind = "cannot_beat"
  /\ pc = "human_input"
  /\ last_played_cards # None

\* C8: a refused human submission changes no hand, nor the last play, the
\* pass count, the last effective player, rankings, phase or
\* current_player_id, and the same player is asked again.
C8_RefusalChangesNothing ==
  [][ (pc = "human_input" /\ ev'.kind \in RefusalKinds) =>
        /\ UNCHANGED <<hand_cards, hand_sorted, last_played_cards,
                       consecutive_passes, last_effective_player_id, rankings,
                       players_without_cards, phase, current_player_id>>
        /\ pc' = "human_input" ]_vars

C8_Witness ==
  /\ ev.kind = "no_such_count"
  /\ pc = "human_input"
  /\ current_player_id = human_player_id

\* C9: an accepted play, human or AI, takes exactly the played cards out of
\* the acting player's hand and touches no other hand, makes the played
\* cards the play to beat, makes the actor the last effective player and
\* sets the pass count to 0.
C9_PlayEffects ==
  [][ ev'.kind = "play" =>
        LET p     == ev'.player
            cards == ev'.cards
        IN  /\ p = current_player_id
            /\ cards # <<>>
            /\ Range(cards) \subseteq Range(hand_cards[p])
            /\ Range(hand_cards'[p]) = Range(hand_cards[p]) \ Range(cards)
            /\ Len(hand_cards'[p]) = Len(hand_cards[p]) - Len(cards)
            /\ \A q \in Players \ {p} : hand_cards'[q] = hand_cards[q]
            /\ last_played_cards' = Some(cards)
            /\ last_effective_player_id' = Some(p)
            /\ consecutive_passes' = 0 ]_vars

C9_Witness ==
  /\ ev.kind = "play"
  /\ Len(ev.cards) = 2
  /\ ev.player = human_player_id
  /\ hand_cards[ev.player] = <<>>

\* C10: an accepted pass, human or AI, adds one to the pass count; if the
\* new count is at least (6 - finished players) - 1 the play to beat is
\* cleared and the count set to 0, otherwise the play to beat stays; hands,
\* rankings and the last effective player stay, and the turn moves to the
\* next player that has not finished.
C10_PassEffects ==
  [][ ev'.kind = "pass" =>
        LET count  == consecutive_passes + 1
            active == 6 - Len(rankings)
        IN  /\ IF count >= active - 1
               THEN last_played_cards' = None /\ consecutive_passes' = 0
               ELSE /\ last_played_cards' = last_played_cards
                    /\ consecutive_passes' = count
            /\ UNCHANGED <<hand_cards, rankings, players_without_cards,
                           last_effective_player_id, phase>>
            /\ ev'.player = current_player_id
            /\ current_player_id' = NextActive(current_player_id, Range(rankings)) ]_vars

C10_Witness ==
  /\ ev.kind = "pass"
  /\ last_played_cards = None
  /\ Len(rankings) >= 1

\* C11: whenever a pass clears the play to beat, every player that still
\* holds cards, other than the player who made that play, has chosen PASS
\* since it was made; also when the player who made it has finished.
C11_ResetAfterAllOthersPassed ==
  [][ (ev'.kind = "pass" /\ last_played_cards # None /\ last_played_cards' = None)
        => ((Players \ players_without_cards) \ Range(last_effective_player_id))
             \subseteq (passed_since_play \cup {ev'.player}) ]_vars

\* A turn PlaySystem.process hands to handle_ai_turn.
AiTurn ==
  /\ pc = "play"
  /\ phase = "playing"
  /\ Cardinality(players_without_cards) # 5
  /\ current_player_id # human_player_id

\* C12: a player under the AI policy who is the last effective player never
\* passes: every turn such a player takes is a play, made by that player.
C12_AiOwnerAlwaysPlays ==
  [][ (AiTurn /\ Some(current_player_id) = last_effective_player_id)
        => (ev'.kind = "play" /\ ev'.player = current_player_id) ]_vars

C12_Witness ==
  /\ AiTurn
  /\ Some(current_player_id) = last_effective_player_id
  /\ hand_cards[current_player_id] # <<>>
  /\ Len(rankings) >= 1

\* The cards of `hand` showing rank `rank`.
CardsOfRank(hand, rank) == {c \in Range(hand) : c.rank = rank}

\* Some rank of `hand` can answer the play to beat: enough cards of one rank
\* that is higher than the rank of the play.
HasAnswer(hand, previous_cards) ==
  \E rank \in {c.rank : c \in Range(hand)} :
    /\ Cardinality(CardsOfRank(hand, rank)) >= Len(previous_cards)
    /\ get_value(rank) > get_value(previous_cards[1].rank)

\* C13: a turn of handle_ai_turn with cards in hand is a play exactly when
\* find_all_beating_combinations returns a non-empty list, and the cards
\* played are then one of the combinations returned; it is a pass exactly
\* when the list is empty, which is when no rank of the hand can answer the
\* play to beat; so with no play to beat the turn is never a pass.
C13_AiPlaysIffItCanBeat ==
  [][ (AiTurn /\ hand_cards[current_player_id] # <<>>) =>
        LET hand == hand_cards[current_player_id]
            beating_combinations ==
              find_all_beating_combinations(hand, last_played_cards)
        IN  /\ ev'.kind \in {"play", "pass"}
            /\ ev'.player = current_player_id
            /\ (ev'.kind = "play") <=> (beating_combinations # <<>>)
            /\ ev'.kind = "play" => ev'.cards \in Range(beating_combinations)
            /\ (ev'.kind = "pass") <=>
                 (last_played_cards # None /\ ~HasAnswer(hand, last_played_cards[1]))
            /\ last_played_cards = None => ev'.kind = "play" ]_vars

C13_Witness ==
  /\ AiTurn
  /\ last_played_cards # None
  /\ Len(find_all_beating_combinations(hand_cards[current_player_id],
                                       last_played_cards)) >= 2

\* C14: after a play or a pass that does not end the game, current_player_id
\* is the first id among (id + 1) % 6, (id + 2) % 6, ... that has not
\* finished, the player finishing in this step counted as finished; a
\* finished player never gets the turn.
C14_NextPlayerSkipsFinished ==
  [][ (ev'.kind \in {"play", "pass"} /\ phase' # "game_over") =>
        /\ current_player_id' = NextActive(current_player_id, players_without_cards')
        /\ current_player_id' \notin players_without_cards'
        /\ hand_cards'[current_player_id'] # <<>> ]_vars

C14_Witness ==
  /\ ev.kind \in {"play", "pass"}
  /\ phase = "playing"
  /\ (ev.player + 1) % 6 \in players_without_cards
  /\ (ev.player + 2) % 6 \in players_without_cards
  /\ current_player_id = (ev.player + 3) % 6

\* C15: last_effective_player_id changes only in a step that accepts a play,
\* and every accepted play sets it to the player who played, also when that
\* play empties the hand; a pass, with or without a reset of the trick,
\* leaves it as it was.
C15_OwnerSetOnlyByPlay ==
  [][ /\ last_effective_player_id' # last_effective_player_id => ev'.kind = "play"
      /\ ev'.kind = "play" =>
           /\ ev'.player = current_player_id
           /\ last_effective_player_id' = Some(ev'.player)
      /\ ev'.kind = "pass" => last_effective_player_id' = last_effective_player_id ]_vars

C15_Witness ==
  /\ ev.kind = "pass"
  /\ last_played_cards = None
  /\ last_effective_player_id # None
  /\ Range(last_effective_player_id) \subseteq players_without_cards

\* C16: in phase playing, the turn of a player created as human (is_ai
\* False) goes to the human step, which shows the hand and waits for the
\* text typed; the AI policy plays or passes only for players created as AI.
C16_HumanTurnWaitsForInput ==
  [][ (pc = "play" /\ phase = "playing" /\ Cardinality(players_without_cards) # 5) =>
        IF is_ai[current_player_id]
        THEN ev'.kind \in {"play", "pass"}
        ELSE ev'.kind = "prompt" /\ pc' = "human_input" ]_vars

\* C17: if the world does not hold six players when the cards are dealt, no
\* hand is filled, phase does not become playing and no turn is processed.
C17_WrongCountStopsSetup ==
  WrongPlayerCount(hand_cards) =>
    /\ \A p \in DOMAIN hand_cards : hand_cards[p] = <<>>
    /\ phase # "playing"
    /\ ~(pc = "processed" /\ ev.kind \in {"idle", "play", "pass"} /\ ev.player # -1)

\* The hands `hands` and the deck `deck_after` left by dealing the deck `d`
\* to the six players: every hand holds Len(d) \div 6 cards, those at deck
\* positions [i * k, i * k + k) for player i; the hands are pairwise
\* disjoint and together hold every card of d; the deck is empty.
DealtEvenly(d, hands, deck_after) ==
  LET k == Len(d) \div 6
  IN  /\ 6 * k = Len(d)
      /\ \A i \in Players :
           /\ Len(hands[i]) = k
           /\ Range(hands[i]) = {d[j] : j \in (i * k + 1)..(i * k + k)}
      /\ \A i, j \in Players : i # j => Range(hands[i]) \cap Range(hands[j]) = {}
      /\ UNION {Range(hands[i]) : i \in Players} = Range(d)
      /\ deck_after = <<>>

NoHands == [i \in Players |-> <<>>]

\* C18: dealing gives each of the six players the same number of cards,
\* player i those at deck positions [i * k, i * k + k); the hands are
\* pairwise disjoint, together hold the whole deck, and the deck is empty
\* afterwards.  On the deck of 216 cards the code builds, k is 36.
C18_DealGivesEqualDisjointHands ==
  [][ ev'.kind = "deal" =>
        /\ DealtEvenly(deck, hand_cards', deck')
        /\ Len(FullDeck) = 216
        /\ DealtEvenly(FullDeck, deal_all_cards(FullDeck, NoHands),
                       deck_after_deal(FullDeck, NoHands))
        /\ \A i \in Players :
             deal_all_cards(FullDeck, NoHands)[i]
               = SubSeq(FullDeck, 36 * i + 1, 36 * i + 36) ]_vars

C18_Witness ==
  /\ ev.kind = "deal"
  /\ deck = <<>>
  /\ \A i \in Players : Len(hand_cards[i]) = (DeckCount * CardsPerDeck) \div 6
  /\ hand_sorted[0]

\* How many cards of the list `d` satisfy Test.
CountCards(d, Test(_)) == Cardinality({i \in 1..Len(d) : Test(d[i])})

\* The list `d` is the deck of deck_count decks over `suits` and `ranks`:
\* for each deck_id exactly one card of each suit and rank and one of each
\* joker, and nothing else.
IsFullDeck(d, deck_count, suits, ranks) ==
  /\ Len(d) = deck_count * (Len(suits) * Len(ranks) + 2)
  /\ \A deck_id \in 0..(deck_count - 1) :
       /\ \A suit \in Range(suits), rank \in Range(ranks) :
            CountCards(d, LAMBDA c : c = Card(suit, rank, deck_id)) = 1
       /\ CountCards(d, LAMBDA c : c = Card("JOKER", "BLACK_JOKER", deck_id)) = 1
       /\ CountCards(d, LAMBDA c : c = Card("JOKER", "RED_JOKER", deck_id)) = 1
  /\ \A rank \in Range(ranks) :
       CountCards(d, LAMBDA c : c.rank = rank) = deck_count * Len(suits)
  /\ \A rank \in {"BLACK_JOKER", "RED_JOKER"} :
       CountCards(d, LAMBDA c : c.rank = rank) = deck_count

\* C19: the deck built has, for each deck_id, one card of each suit and
\* non-joker rank and one small and one big joker, and no other card; as the
\* code stands that is 216 cards, 16 of each non-joker rank and 4 of each
\* joker.  Shuffling leaves the same cards, each once.
C19_DeckIsFourFullDecks ==
  [][ ev'.kind = "deck" =>
        /\ IsFullDeck(create_deck, DeckCount, DeckSuits, DeckRanks)
        /\ IsFullDeck(deck', DeckCount, DeckSuits, DeckRanks)
        /\ Len(deck') = Len(create_deck)
        /\ Range(deck') = Range(create_deck)
        /\ IsFullDeck(FullDeck, 4, FullSuits, NonJokerRanks)
        /\ Len(FullDeck) = 216
        /\ Len(NonJokerRanks) = 13
        /\ \A rank \in Range(NonJokerRanks) :
             CountCards(FullDeck, LAMBDA c : c.rank = rank) = 16
        /\ \A rank \in {"BLACK_JOKER", "RED_JOKER"} :
             CountCards(FullDeck, LAMBDA c : c.rank = rank) = 4 ]_vars

C19_Witness ==
  /\ ev.kind = "deck"
  /\ deck # create_deck
  /\ Len(deck) = DeckCount * CardsPerDeck

\* `candidate` has as many cards as `reference`, each side shows one rank
\* only, and the rank of candidate is higher on the ladder of get_value.
Outranks(candidate, reference) ==
  /\ Len(candidate) = Len(reference)
  /\ \E high, low \in Rank :
       /\ \A c \in Range(candidate) : c.rank = high
       /\ \A c \in Range(reference) : c.rank = low
       /\ get_value(high) > get_value(low)

\* C20: can_beat returns True or False for every pair of card lists; for a
\* non-empty previous_cards it returns True exactly when the two lists are
\* equally long, each of one rank, and the rank of new_cards is the higher.
C20_CanBeatIsTotalPredicate ==
  returned # None =>
    /\ returned[1] \in BOOLEAN
    /\ (arg_previous_cards # None /\ arg_previous_cards[1] # <<>>) =>
         (returned[1] <=> Outranks(arg_new_cards, arg_previous_cards[1]))

C20_Witness ==
  /\ returned = Some(FALSE)
  /\ Len(arg_new_cards) = 2
  /\ arg_new_cards[1].rank # arg_new_cards[2].rank
  /\ arg_previous_cards # None
  /\ Len(arg_previous_cards[1]) = 2
  /\ AllSameRank(arg_previous_cards[1])

\* A play: a non-empty list of cards of one rank.
IsPlay(cards) == cards # <<>> /\ \A i \in 1..Len(cards) : cards[i].rank = cards[1].rank

\* C21: can_beat(P, None) is True for every play P and can_beat(P, P) is
\* False; and when can_beat(P, Q) is True for two plays of the same size,
\* the call with the two exchanged returns False.
C21_NoPlayBeatsItself ==
  /\ [](returned # None /\ IsPlay(arg_new_cards) =>
          /\ arg_previous_cards = None => returned = Some(TRUE)
          /\ arg_previous_cards = Some(arg_new_cards) => returned = Some(FALSE))
  /\ [][ ( /\ returned = Some(TRUE)
           /\ arg_previous_cards # None
           /\ IsPlay(arg_new_cards) /\ IsPlay(arg_previous_cards[1])
           /\ Len(arg_new_cards) = Len(arg_previous_cards[1])
           /\ arg_new_cards' = arg_previous_cards[1]
           /\ arg_previous_cards' = Some(arg_new_cards) )
         => returned' = Some(FALSE) ]_vars

C21_Witness ==
  /\ returned = Some(FALSE)
  /\ IsPlay(arg_new_cards)
  /\ Len(arg_new_cards) = 2
  /\ arg_previous_cards = Some(arg_new_cards)

\* C22: against a play of another size can_beat never returns True, whatever
\* the ranks on the two sides are.
C22_OtherSizeNeverBeats ==
  (returned # None /\ arg_previous_cards # None /\ arg_previous_cards[1] # <<>>
     /\ Len(arg_new_cards) # Len(arg_previous_cards[1]))
    => returned = Some(FALSE)

C22_Witness ==
  /\ returned = Some(FALSE)
  /\ arg_previous_cards = Some(<<Card("HEART", "THREE", 0)>>)
  /\ arg_new_cards = <<Card("SPADE", "ACE", 0), Card("SPADE", "ACE", 0)>>

\* The ladder of the game, lowest rank first.
Ladder ==
  <<"THREE", "FOUR", "FIVE", "SIX", "SEVEN", "EIGHT", "NINE", "TEN", "JACK",
    "QUEEN", "KING", "ACE", "TWO", "BLACK_JOKER", "RED_JOKER">>

LadderPlace(rank) == CHOOSE i \in 1..Len(Ladder) : Ladder[i] = rank

\* C23: get_value gives the fifteen ranks the values 3..17 in the order of
\* the ladder 3 < ... < 10 < J < Q < K < A < 2 < small joker < big joker, two
\* ranks never the same value; and one card beats another exactly when its
\* rank is higher on that ladder, wherever the enum declares the two ranks.
C23_ValuesFollowTheLadder ==
  returned # None =>
    LET rank1 == arg_new_cards[1].rank
        rank2 == arg_previous_cards[1][1].rank
    IN  /\ returned[1][1] = LadderPlace(rank1) + 2
        /\ returned[1][2] = LadderPlace(rank2) + 2
        /\ returned[1][1] \in 3..17
        /\ rank1 # rank2 => returned[1][1] # returned[1][2]
        /\ returned[1][3] <=> (LadderPlace(rank1) > LadderPlace(rank2))

C23_Witness ==
  /\ returned = Some(<<14, 13, TRUE>>)
  /\ arg_new_cards[1].rank = "ACE"
  /\ arg_previous_cards[1][1].rank = "KING"
  /\ RankIndex("ACE") < RankIndex("KING")

\* The ranks showing in a card list, and its cards of one rank.
RanksOf(cards) == {c.rank : c \in Range(cards)}

\* C24: with no target, find_all_beating_combinations returns, for every
\* rank of the hand held n times, exactly one combination of each size 1..n,
\* all cards of that rank and of the hand, and nothing else: as many
\* combinations as the hand has cards, and none for an empty hand.
C24_EveryPrefixOfEveryGroup ==
  (returned # None /\ (arg_previous_cards = None \/ arg_previous_cards = Some(<<>>))) =>
    LET hand   == arg_new_cards
        result == returned[1]
    IN  /\ Len(result) = Len(hand)
        /\ hand = <<>> => result = <<>>
        /\ \A rank \in RanksOf(hand) :
             \A n \in 1..Cardinality(CardsOfRank(hand, rank)) :
               Cardinality({k \in 1..Len(result) :
                              /\ Len(result[k]) = n
                              /\ Range(result[k]) \subseteq CardsOfRank(hand, rank)
                              /\ Cardinality(Range(result[k])) = n}) = 1
        /\ \A k \in 1..Len(result) :
             /\ IsPlay(result[k])
             /\ Range(result[k]) \subseteq Range(hand)

C24_Witness ==
  /\ returned # None
  /\ arg_previous_cards = None
  /\ Len(arg_new_cards) = 3
  /\ Cardinality(RanksOf(arg_new_cards)) = 2
  /\ Len(returned[1]) = 3

\* The ranks of `hand` that can answer the play `reference`: held at least
\* as many times as the play has cards, and of a higher value.
AnsweringRanks(hand, reference) ==
  {rank \in RanksOf(hand) :
     /\ Cardinality(CardsOfRank(hand, rank)) >= Len(reference)
     /\ get_value(rank) > get_value(reference[1].rank)}

\* C25: against a play of k cards of rank r, find_all_beating_combinations
\* returns exactly one combination for every rank of the hand that is higher
\* than r and held at least k times, that combination being k cards of that
\* rank from the hand; it returns nothing else, and every combination
\* returned beats the play by can_beat.
C25_OneAnswerPerHigherGroup ==
  (returned # None /\ arg_previous_cards # None /\ IsPlay(arg_previous_cards[1])) =>
    LET hand      == arg_new_cards
        reference == arg_previous_cards[1]
        result    == returned[1]
    IN  /\ Len(result) = Cardinality(AnsweringRanks(hand, reference))
        /\ \A rank \in AnsweringRanks(hand, reference) :
             Cardinality({k \in 1..Len(result) : result[k][1].rank = rank}) = 1
        /\ \A k \in 1..Len(result) :
             /\ Len(result[k]) = Len(reference)
             /\ Cardinality(Range(result[k])) = Len(reference)
             /\ Range(result[k]) \subseteq CardsOfRank(hand, result[k][1].rank)
             /\ result[k][1].rank \in AnsweringRanks(hand, reference)
             /\ can_beat(result[k], arg_previous_cards)

\* A hand with two ranks held twice, one above and one below the ace played
\* as a single: one combination comes back although four could be formed.
C25_Witness ==
  /\ returned # None
  /\ arg_previous_cards = Some(<<Card("SPADE", "ACE", 0)>>)
  /\ Len(arg_new_cards) = 3
  /\ Cardinality(RanksOf(arg_new_cards)) = 2
  /\ Len(returned[1]) = 1
  /\ returned[1][1][1].rank = "TWO"

\* C26: find_all_beating_combinations returns the empty list when the cards
\* to beat are non-empty and not all of one rank, whatever the hand, and when
\* they are a play that no rank of the hand can answer.
C26_NoAnswerGivesEmptyList ==
  (returned # None /\ arg_previous_cards # None /\ arg_previous_cards[1] # <<>>) =>
    LET hand      == arg_new_cards
        reference == arg_previous_cards[1]
    IN  /\ ~IsPlay(reference) => returned = Some(<<>>)
        /\ (IsPlay(reference) /\ AnsweringRanks(hand, reference) = {})
              => returned = Some(<<>>)

\* A hand holding a rank twice against two cards of different ranks, both
\* lower than the rank held.
C26_Witness ==
  /\ returned = Some(<<>>)
  /\ arg_previous_cards = Some(<<Card("HEART", "THREE", 0), Card("SPADE", "ACE", 0)>>)
  /\ Cardinality(CardsOfRank(arg_new_cards, "TWO")) = 2

\* C27: get_score_by_rank gives +2, +1, 0, 0, -1, -2 for the positions 0 to
\* 5 and 0 for every other position, negative or above 5.
C27_ScoreTable ==
  returned # None =>
    LET rank  == returned[1][1]
        score == returned[1][2]
    IN  /\ rank = 0 => score = 2
        /\ rank = 1 => score = 1
        /\ rank = 2 => score = 0
        /\ rank = 3 => score = 0
        /\ rank = 4 => score = -1
        /\ rank = 5 => score = -2
        /\ (rank < 0 \/ rank > 5) => score = 0

C27_Witness == returned = Some(<<6, 0>>)

\* The position a player is scored at: its index in rankings, or 5 for the
\* player that never ran out of cards.
PositionOf(ranked, player_id) ==
  IF player_id \in Range(ranked)
  THEN (CHOOSE k \in 1..Len(ranked) : ranked[k] = player_id) - 1
  ELSE 5

RECURSIVE SumOfPositions(_, _)
SumOfPositions(ranked, players) ==
  IF players = {} THEN 0
  ELSE LET player_id == CHOOSE p \in players : TRUE
       IN  get_score_by_rank(PositionOf(ranked, player_id))
             + SumOfPositions(ranked, players \ {player_id})

TeamTotal(ranked, team) ==
  SumOfPositions(ranked, {p \in Players : TeamOf(p) = team})

\* C28: when run scores a finished all-AI game, each team's total is the sum
\* of get_score_by_rank over the positions of its players, the player that
\* never ran out of cards counted at -2, and the two totals sum to 0.
C28_TeamTotalsSumToZero ==
  [][ (AllAi /\ ev'.kind = "score") =>
        /\ teamA_score' = TeamTotal(rankings', "A")
        /\ teamB_score' = TeamTotal(rankings', "B")
        /\ teamA_score' + teamB_score' = 0 ]_vars

\* C29: run of an all-AI game ends by returning: the scoring goes through
\* every ranked player and reaches the announcement of the result without an
\* error.
C29_AllAiRunReturns ==
  [][ (AllAi /\ ev'.kind = "score") => run_state' = "returned" ]_vars

\* C30: phase starts as "dealing" and only moves forward: it becomes
\* "playing" in the one step in which DealSystem deals the cards, it becomes
\* "game_over" from "playing" only, and it never goes back.
C30_PhaseOnlyMovesForward ==
  /\ phase = "dealing"
  /\ [][ ( /\ (phase' # phase) =>
                ( \/ (phase = "dealing" /\ phase' = "playing" /\ ~dealt /\ dealt')
                  \/ (phase = "playing" /\ phase' = "game_over") )
           /\ (~dealt /\ dealt') => (phase = "dealing" /\ phase' = "playing")
           /\ dealt' => (phase' # "dealing") ) ]_vars

\* A pass made after the game is over: DealSystem has dealt before and
\* leaves the phase alone.
C30_Witness ==
  /\ phase = "game_over"
  /\ dealt
  /\ pc = "play"
  /\ ev.kind = "idle"

\* What PlaySystem.process prints when it handles a player's turn: a play, a
\* pass, or the prompt of the human turn.
TurnKinds == {"play", "pass", "prompt"}

\* C31: one pass over the processors performs either the completion of the
\* deal or one player's turn, never both: in the pass in which DealSystem
\* has dealt, PlaySystem handles no turn.
C31_DealAndTurnInSeparatePasses ==
  [][ (pc = "play" /\ ev.kind = "deal") => ev'.kind \notin TurnKinds ]_vars

\* C32: whenever PlaySystem is about to handle a turn, or the human turn is
\* waiting for its text, current_player_id is one of 0..5 and names a player
\* that has not finished and holds cards; and whoever plays, passes or is
\* prompted is that player, so a finished player never acts again.
C32_TurnGoesToActivePlayer ==
  /\ []( ( /\ phase = "playing"
           /\ pc \in {"play", "human_input"}
           /\ Cardinality(players_without_cards) # 5 ) =>
           /\ current_player_id \in Players
           /\ current_player_id \notin players_without_cards
           /\ hand_cards[current_player_id] # <<>> )
  /\ [][ ev'.kind \in TurnKinds =>
           /\ ev'.player = current_player_id
           /\ ev'.player \notin players_without_cards
           /\ hand_cards[ev'.player] # <<>> ]_vars

\* A turn that came to its player over two finished seats.
C32_Witness ==
  /\ phase = "playing"
  /\ pc = "play"
  /\ (current_player_id + 5) % 6 \in players_without_cards
  /\ (current_player_id + 4) % 6 \in players_without_cards
  /\ hand_cards[current_player_id] # <<>>

\* C33: once the cards are dealt a player is in rankings exactly when its
\* hand is empty; an id enters rankings exactly in the step that empties its
\* hand, that step is a play of that player, and the id is appended.
C33_RankedIffHandEmpty ==
  /\ []( dealt => \A p \in Players :
                    (p \in Range(rankings)) <=> (hand_cards[p] = <<>>) )
  /\ [][ /\ \A p \in Players :
              (p \notin Range(rankings) /\ p \in Range(rankings'))
                <=> (hand_cards[p] # <<>> /\ hand_cards'[p] = <<>>)
         /\ (rankings' # rankings) =>
              (ev'.kind = "play" /\ rankings' = Append(rankings, ev'.player))
         /\ (ev'.kind = "pass") => (rankings' = rankings) ]_vars

\* A player has just played its last cards while the game goes on.
C33_Witness ==
  /\ ev.kind = "play"
  /\ phase = "playing"
  /\ rankings # <<>>
  /\ rankings[Len(rankings)] = ev.player
  /\ hand_cards[ev.player] = <<>>

\* C34: the play to beat is always either none or a play: a non-empty list
\* of cards that all show one rank.
C34_LastPlayIsOneRank ==
  last_played_cards # None => IsPlay(last_played_cards[1])

\* A play of more than one card stands.
C34_Witness ==
  /\ last_played_cards # None
  /\ Len(last_played_cards[1]) >= 2
  /\ phase = "playing"

\* C35: the deck is built and the cards are dealt once, both in the first
\* pass; from then on no step changes the deck or the two flags, and the
\* content of a hand changes only by a play of its player, which takes the
\* played cards out of it.
C35_BuiltAndDealtOnce ==
  [][ /\ (ev'.kind = "deck") => (~initialized /\ first_pass)
      /\ (ev'.kind = "deal") => (~dealt /\ first_pass)
      /\ (initialized /\ dealt) =>
           /\ deck' = deck
           /\ initialized' /\ dealt'
           /\ \A p \in Players :
                (Range(hand_cards'[p]) # Range(hand_cards[p])
                   \/ Len(hand_cards'[p]) # Len(hand_cards[p])) =>
                  /\ ev'.kind = "play"
                  /\ ev'.player = p
                  /\ Range(hand_cards'[p]) = Range(hand_cards[p]) \ Range(ev'.cards) ]_vars

\* A later pass in which DeckSystem and DealSystem have left everything
\* alone, with a hand already played from.
C35_Witness ==
  /\ ~first_pass
  /\ pc = "play"
  /\ ev.kind = "idle"
  /\ phase = "playing"
  /\ \E p \in Players : hand_cards[p] = <<>>

\* C36: once the cards are dealt the six hands never share a card; no step
\* brings a card into a hand or makes a hand longer, so every hand stays
\* within the cards it was dealt; and a step changes the content of at most
\* one hand, that of the player acting.
C36_CardsAreConserved ==
  /\ []( dealt => \A p \in Players : \A q \in (p + 1)..5 :
                    \A i \in 1..Len(hand_cards[p]) : \A j \in 1..Len(hand_cards[q]) :
                      hand_cards[p][i] # hand_cards[q][j] )
  /\ [][ dealt =>
           \A p \in Players :
             \/ hand_cards'[p] = hand_cards[p]
             \/ /\ Range(hand_cards'[p]) \subseteq Range(hand_cards[p])
                /\ Len(hand_cards'[p]) <= Len(hand_cards[p])
                /\ Range(hand_cards'[p]) # Range(hand_cards[p]) => p = current_player_id ]_vars

\* Two players have played from their hands and the others hold what they
\* were dealt.
C36_Witness ==
  /\ dealt
  /\ phase = "playing"
  /\ hand_cards[0] = <<>>
  /\ Len(hand_cards[1]) = 1
  /\ Len(hand_cards[2]) = 2

\* The bound on the count: while the game is being played
\* consecutive_passes lies between 0 and the number of active players less 2.
CountBound ==
  phase = "playing" =>
    (0 <= consecutive_passes /\ consecutive_passes <= active_players - 2)

\* The pass that brings the count to the number of active players less 1
\* clears the play to beat and zeroes the count.
ReachingPassResets ==
  (ev'.kind = "pass" /\ consecutive_passes + 1 >= active_players - 1) =>
    (last_played_cards' = None /\ consecutive_passes' = 0)

C38_TrickClimbsTheLadder ==
  /\ []( /\ plays_in_trick <= 15
         /\ last_played_cards # None =>
              /\ plays_in_trick >= 1
              /\ get_value(last_played_cards[1][1].rank) \in 3..17
              /\ plays_in_trick <= get_value(last_played_cards[1][1].rank) - 2 )
  /\ [][ (ev'.kind = "play" /\ last_played_cards # None) =>
           /\ Len(ev'.cards) = Len(last_played_cards[1])
           /\ get_value(ev'.cards[1].rank) > get_value(last_played_cards[1][1].rank) ]_vars

\* The third play of a trick stands.
C38_Witness ==
  /\ last_played_cards # None
  /\ plays_in_trick = 3
  /\ ev.kind = "play"

\* C39: whenever a turn is about to be handled, or the human turn waits for
\* its text, and the player to act is the last effective player, there is no
\* play to beat: the trick was reset before the turn came back to its owner.
C39_OwnerNeverFacesOwnPlay ==
  ( /\ phase = "playing"
    /\ pc \in {"play", "human_input"}
    /\ Some(current_player_id) = last_effective_player_id )
  => last_played_cards = None

\* The last of the other players has passed with some players finished, and
\* the turn is back with the owner of the trick.
C39_Witness ==
  /\ phase = "playing"
  /\ pc = "play"
  /\ Some(current_player_id) = last_effective_player_id
  /\ last_played_cards = None
  /\ passes_since_play = active_players - 1
  /\ players_without_cards # {}

\* C40: phase is never "playing" with five players finished, so the test at
\* the top of PlaySystem.process never succeeds and the game is never ended
\* from there.
C40_TopGuardNeverTaken ==
  /\ []( phase = "playing" => Cardinality(players_without_cards) < 5 )
  /\ [][ ev'.kind # "game_over" ]_vars

\* PlaySystem.process is entered with five players finished: the game is
\* over already.
C40_Witness ==
  /\ pc = "play"
  /\ Cardinality(players_without_cards) = 5
  /\ phase = "game_over"

=============================================================================
